---- MODULE Spec2Model ----
(***************************************************************************)
(* Sale-transaction processing and stock consistency of the motor-parts    *)
(* shop backend (src/app.py).  The persistent tables are the variables     *)
(* parts, sales, sale_details, notifications, audit_logs, users and        *)
(* settings; sess is the request-scoped SQLAlchemy session and the local   *)
(* variables of the handler a worker is running.                           *)
(*                                                                         *)
(* Storage semantics taken from the declared schema and the configured     *)
(* engine (MySQL is required, app.py:41-45): primary keys and the unique   *)
(* receipt_number are enforced, foreign keys are enforced, an INSERT       *)
(* consumes its auto-increment value even when the transaction is rolled   *)
(* back, and a commit expires every loaded object so that the next read    *)
(* of an attribute reloads the committed row.                              *)
(***************************************************************************)
EXTENDS Integers, Sequences, FiniteSets, TLC

\* ---------------------------------------------------------------- bounds
\* number of process_sale invocations that reach the INSERT of the Sale
MaxSales == 1
\* number of dashboard views that are logged
MaxLogins == 1
\* a direct fan-out call is made while fewer notifications than this are stored
MaxNotifications == 3
\* number of sales INSERTs issued by the two concurrent workers
MaxConcurrentSales == 2

\* ------------------------------------------------------- program constants
DefaultLowStockThreshold == 5
DefaultHighValueThreshold == 5000
CriticalStockLevel == 2
MilestoneEvery == 10

\* ------------------------------------------------------------ input sets
Workers == {1, 2}
\* the sequential specification runs one request at a time, on this worker
SeqWorkers == {1}

PartIds == {1, 2}
InitParts == (1 :> 4)
StockInputs == {-1, 1}
Totals == {10, 5000}
Customers == {1}
\* 0 is "no customer_id in the payload" (data.get returns None)
CustomerInputs == {0, 2}
InitUsers == (1 :> "admin") @@ (2 :> "manager") @@ (3 :> "manager") @@ (4 :> "staff")
\* users that log in and post sales
Cashiers == {2, 4}
\* the sales table holds this many earlier sales when the model starts, so
\* that the next sale is the tenth
InitSaleCounts == {9}

LowKey == "low_stock_threshold"
HighKey == "high_value_sale_threshold"
\* setting_value is text; these are the numerals int() and float() accept
Numerals == ("0" :> 0) @@ ("2" :> 2) @@ ("3" :> 3) @@ ("5" :> 5) @@ ("20" :> 20)
InitSettings == (LowKey :> "5")
SettingInputs == {<<LowKey, "2">>, <<LowKey, "abc">>}
\* the values an administrator stores for the high-value threshold
SalesSettingInputs == {<<HighKey, "5">>}
\* the roles a staff member can hold
Roles == {"admin", "manager", "staff"}
\* the staff member whose role an administrator changes, and the roles given
RoleChangeTargets == {3}
RoleInputs == {"manager", "staff"}
\* the titles create_notification_for_role and create_notification_for_all
\* are called with
NoticeTitles == {"Notice"}
\* values of datetime.utcnow() when a notification is marked as read; 0 is NULL
ReadTimes == {1, 2}
\* the numbers of earlier sales the trigger specification starts from
TriggerSaleCounts == {8, 9}

Line(id, quantity) == [id |-> id, quantity |-> quantity, price |-> 10]
Carts == {<<>>, <<Line(1, -1)>>, <<Line(1, 1)>>, <<Line(1, 2)>>,
          <<Line(1, 1), Line(2, 1)>>, <<Line(1, 1), Line(1, 1)>>}

\* The requests POST /api/sales is driven with: the logged-in user and the
\* JSON payload.  has_total is FALSE for a payload without the 'total' key.
\* Each request differs from BaseRequest in one respect.
BaseRequest == [user |-> 4, has_total |-> TRUE, total |-> 10, items |-> <<Line(1, 1)>>,
                customer_id |-> 0]
Requests ==
    {[BaseRequest EXCEPT !.items = c] : c \in Carts}
    \cup {[BaseRequest EXCEPT !.total = t] : t \in Totals}
    \cup {[BaseRequest EXCEPT !.customer_id = k] : k \in CustomerInputs}
    \cup {[BaseRequest EXCEPT !.user = u] : u \in Cashiers}
    \cup {[BaseRequest EXCEPT !.has_total = FALSE]}

\* the payloads of the two concurrent workers: one or two units of part 1
ConcRequests == {[BaseRequest EXCEPT !.items = <<Line(1, q)>>] : q \in {1, 2}}
\* numbers of earlier sales at the start of the concurrent runs
ConcSaleCounts == {8, 9}

VARIABLES
    parts,          \* part id -> stock_quantity, for the rows of table parts
    sales,          \* rows of table sales
    sale_details,   \* rows of table sale_details
    notifications,  \* rows of table notifications
    audit_logs,     \* rows of table audit_logs
    users,          \* staff id -> role, for the rows of table staff
    settings,       \* setting_key -> setting_value, for the rows of table settings
    nextSaleId,     \* auto-increment counter of sales.id
    nextNotifId,    \* auto-increment counter of notifications.id
    nextAuditId,    \* auto-increment counter of audit_logs.id
    started,        \* process_sale invocations that reached the INSERT of the Sale
    sess            \* worker -> session and handler state

vars == <<parts, sales, sale_details, notifications, audit_logs, users, settings,
          nextSaleId, nextNotifId, nextAuditId, started, sess>>

\* ----------------------------------------------------------------- helpers
NoSale == [id |-> 0, total_amount |-> 0, staff_id |-> 0, customer_id |-> 0, receipt_number |-> 0]
NoPayload == [user |-> 0, has_total |-> FALSE, total |-> 0, items |-> <<>>, customer_id |-> 0]
\* success, status, sale_id, receipt_number and message are the JSON answer
\* (message carries str(e)); sale and committed record which invocation
\* answered: the id its Sale was given and whether its commit succeeded
NoResponse == [success |-> FALSE, status |-> 0, sale_id |-> 0, receipt_number |-> 0,
               message |-> "", sale |-> 0, committed |-> FALSE]
NoSnapshot == [parts |-> <<>>, sales |-> {}, sale_details |-> {}, notifications |-> {}, audit_logs |-> {}]

Snapshot == [parts |-> parts, sales |-> sales, sale_details |-> sale_details,
             notifications |-> notifications, audit_logs |-> audit_logs]

IdleSession(resp) ==
    [pc |-> "idle", data |-> NoPayload, new_sale |-> NoSale,
     pending |-> <<>>, flushed |-> {}, loaded |-> <<>>,
     low_stock_items |-> <<>>, low_stock_threshold |-> 0, i |-> 0,
     committed |-> FALSE, swallowed |-> FALSE, error |-> "", pre |-> NoSnapshot,
     sales_seen |-> 0, response |-> resp]

\* the elements of a set of integers in increasing order (primary-key order)
RECURSIVE SortedSeq(_)
SortedSeq(S) ==
    IF S = {} THEN <<>>
    ELSE LET m == CHOOSE x \in S : \A y \in S : x <= y
         IN <<m>> \o SortedSeq(S \ {m})

SeqToSet(q) == {q[j] : j \in 1..Len(q)}

\* RoleUsers without the filter on the role
RoleUsersAll(role) == SortedSeq(DOMAIN users)

\* User.query.filter_by(role=role).all()
RoleUsers(role) == SortedSeq({u \in DOMAIN users : users[u] = role})

\* the rows the first k calls of create_notification write for the users
\* targets[1..k]; each call commits its own row
NotificationRows(targets, k, title, type, category, part, sale) ==
    {[id |-> nextNotifId + j - 1, user_id |-> targets[j], title |-> title, type |-> type,
      category |-> category, is_read |-> FALSE, read_at |-> 0,
      part |-> part, sale |-> sale] : j \in 1..k}

\* int(setting_value) / float(setting_value) accept exactly the numerals
IsNumeral(v) == v \in DOMAIN Numerals

\* FlushOk for a sale_details table whose key is not (sale_id, part_id)
FlushOkWithoutKey(pending, flushed) ==
    \A j \in 1..Len(pending) : pending[j].part_id \in DOMAIN parts

\* A flush INSERTs the pending sale_details rows in order.  It fails when a
\* row references a part that does not exist (foreign key parts.id) or
\* repeats the primary key (sale_id, part_id) of a row already written.
FlushOk(pending, flushed) ==
    \A j \in 1..Len(pending) :
        /\ pending[j].part_id \in DOMAIN parts
        /\ \A d \in flushed : ~(d.sale_id = pending[j].sale_id /\ d.part_id = pending[j].part_id)
        /\ \A h \in 1..(j-1) :
              ~(pending[h].sale_id = pending[j].sale_id /\ pending[h].part_id = pending[j].part_id)

\* Decrement without lines 2189-2190
DecrementNoFloor(stock_quantity, quantity) == stock_quantity - quantity

\* part.stock_quantity -= quantity, floored at zero
Decrement(stock_quantity, quantity) ==
    IF stock_quantity - quantity < 0 THEN 0 ELSE stock_quantity - quantity

\* the test that puts a part on low_stock_items
IsLowStock(stock_quantity, threshold) ==
    stock_quantity < threshold /\ stock_quantity >= 0

\* IsCritical with < in the place of <=
IsCriticalStrict(stock_quantity) == stock_quantity < CriticalStockLevel

\* the test of the critical-stock trigger
IsCritical(stock_quantity) == stock_quantity <= CriticalStockLevel

\* the rows of the n sales processed before the model starts: each sold one
\* unit of part 1 at 10, with receipt number i
LegacySales(n) ==
    {[id |-> i, total_amount |-> 10, staff_id |-> 4, customer_id |-> 0, receipt_number |-> i] :
        i \in 1..n}
LegacyDetails(n) ==
    {[sale_id |-> i, part_id |-> 1, quantity |-> 1, price_at_sale |-> 10] : i \in 1..n}
LegacyAudits(n) ==
    {[id |-> i, user_id |-> 4, action_type |-> "create", table_name |-> "sales", record_id |-> i,
      new_values |-> [total_amount |-> 10, customer_id |-> 0, items |-> <<Line(1, 1)>>]] :
        i \in 1..n}

InitFrom(n) ==
        /\ parts = InitParts
        /\ sales = LegacySales(n)
        /\ sale_details = LegacyDetails(n)
        /\ notifications = {}
        /\ audit_logs = LegacyAudits(n)
        /\ users = InitUsers
        /\ settings = InitSettings
        /\ nextSaleId = n + 1
        /\ nextNotifId = 1
        /\ nextAuditId = n + 1
        /\ started = 0
        /\ sess = [p \in Workers |-> IdleSession(NoResponse)]

Init == \E n \in InitSaleCounts : InitFrom(n)

DbUnchanged == UNCHANGED <<parts, sales, sale_details, notifications, audit_logs, users, settings>>

\* generate_receipt_number, lines 530-533: a random suffix.  The values it
\* can return are a suffix no sale carries, or the suffix of an earlier sale
\* (the latest stands for all of them).
ReceiptChoices ==
    {nextSaleId} \cup {s.receipt_number : s \in {t \in sales : \A o \in sales : o.id <= t.id}}

\* the sum of quantity x price over the lines of a cart
RECURSIVE LineSum(_)
LineSum(items) ==
    IF items = <<>> THEN 0
    ELSE Head(items).quantity * Head(items).price + LineSum(Tail(items))

\* SaleTotal for a total computed from the cart
SaleTotalFromLines(d) == LineSum(d.items)

\* total_amount = float(data['total']), line 2150: the declared total
SaleTotal(d) == d.total

\* ReceiptFree for a receipt_number column that is not unique
ReceiptUnchecked(r) == TRUE

\* unique=True on Sale.receipt_number, line 373: the INSERT is accepted
\* only when no stored sale carries the value
ReceiptFree(r) == r \notin {t.receipt_number : t \in sales}

\* SaleInsertOk for a receipt number that is generated again until it is free
SaleInsertOkRetried(d, r) == d.customer_id = 0 \/ d.customer_id \in Customers

\* the INSERT of the flush of line 2164 is accepted: the one receipt number
\* generated at line 2159 is free and the customer, if any, exists
SaleInsertOk(d, r) ==
    /\ ReceiptFree(r)
    /\ (d.customer_id = 0 \/ d.customer_id \in Customers)

\* Flushed for a commit in the place of the flush
FlushedAutocommit(sale) == sales \cup {sale}

\* db.session.flush(), line 2164: the INSERT runs inside the transaction, the
\* committed table is as before
Flushed(sale) == sales

\* process_sale, lines 2146-2164: read the payload, create the Sale, flush.
\* The flush fails on a receipt_number already stored (unique), on a
\* customer_id without a customers row (foreign key), or in the storage.
\* requests are the payloads that can arrive, limit the number of INSERTs
\* the run may issue.
SaleBeginWith(p, requests, limit) ==
    /\ sess[p].pc = "idle"
    /\ started < limit
    /\ \E d \in requests, r \in ReceiptChoices, fault \in BOOLEAN :
         LET s0 == [IdleSession(NoResponse) EXCEPT !.data = d, !.pre = Snapshot]
             sale == [id |-> nextSaleId, total_amount |-> SaleTotal(d), staff_id |-> d.user,
                      customer_id |-> d.customer_id, receipt_number |-> r]
             integrity == SaleInsertOk(d, r)
         IN  /\ d.user \in DOMAIN users
             /\ fault => d.has_total
             /\ IF ~d.has_total
                   THEN /\ sess' = [sess EXCEPT ![p] =
                                       [s0 EXCEPT !.pc = "except", !.error = "KeyError"]]
                        /\ UNCHANGED <<nextSaleId, started, sales>>
                   ELSE /\ nextSaleId' = nextSaleId + 1
                        /\ started' = started + 1
                        /\ IF fault \/ ~integrity
                              THEN /\ sess' = [sess EXCEPT ![p] =
                                        [s0 EXCEPT !.pc = "except",
                                                   !.error = IF fault THEN "OperationalError"
                                                                      ELSE "IntegrityError"]]
                                   /\ UNCHANGED sales
                              ELSE /\ sess' = [sess EXCEPT ![p] =
                                        [s0 EXCEPT !.pc = "threshold", !.new_sale = sale]]
                                   /\ sales' = Flushed(sale)
    /\ UNCHANGED <<parts, sale_details, notifications, audit_logs, users, settings>>
    /\ UNCHANGED <<nextNotifId, nextAuditId>>

SaleBegin(p) == SaleBeginWith(p, Requests, MaxSales)

\* process_sale, lines 2166-2173: read the low-stock threshold.
SaleThreshold(p) ==
    /\ sess[p].pc = "threshold"
    /\ IF LowKey \in DOMAIN settings
          THEN IF IsNumeral(settings[LowKey])
                 THEN sess' = [sess EXCEPT ![p].pc = "lines", ![p].i = 1,
                                           ![p].low_stock_threshold = Numerals[settings[LowKey]]]
                 ELSE sess' = [sess EXCEPT ![p].pc = "except", ![p].error = "ValueError"]
          ELSE sess' = [sess EXCEPT ![p].pc = "lines", ![p].i = 1,
                                    ![p].low_stock_threshold = DefaultLowStockThreshold]
    /\ DbUnchanged
    /\ UNCHANGED <<nextSaleId, nextNotifId, nextAuditId, started>>

\* The parts table as the SELECTs of the request see it.  The request runs
\* in one transaction from its first query (the load of current_user) to the
\* commit of line 2196, and the storage engine (InnoDB at its default
\* isolation level) answers every plain SELECT of a transaction from the
\* snapshot taken at its first read: rows committed by other requests in the
\* meantime are not seen.
ReadView(s) == s.pre.parts

\* The row locks that make the commit of p wait: the INSERT of a line item
\* holds a shared lock on the parts row it references until its transaction
\* ends, and the UPDATE of a parts row needs the exclusive lock.
LockWait(p) ==
    \E q \in Workers \ {p} :
        /\ sess[q].pc \in {"lines", "except"}
        /\ \E d \in sess[q].flushed : d.part_id \in DOMAIN sess[p].loaded

\* process_sale, lines 2175-2194: one iteration of the loop over the cart.
SaleLine(p) ==
    LET s == sess[p]
        item == s.data.items[s.i]
        detail == [sale_id |-> s.new_sale.id, part_id |-> item.id,
                   quantity |-> item.quantity, price_at_sale |-> item.price]
        pending1 == Append(s.pending, detail)
        \* Part.query.get: an identity-map hit emits no SQL; a miss autoflushes
        hit == item.id \in DOMAIN s.loaded
        flushOk == FlushOk(pending1, s.flushed)
        pending2 == IF hit THEN pending1 ELSE <<>>
        flushed2 == IF hit THEN s.flushed ELSE s.flushed \cup SeqToSet(pending1)
        found == hit \/ item.id \in DOMAIN ReadView(s)
        old_stock == IF hit THEN s.loaded[item.id] ELSE ReadView(s)[item.id]
        new_stock == Decrement(old_stock, item.quantity)
    IN  /\ s.pc = "lines"
        /\ s.i <= Len(s.data.items)
        /\ IF ~hit /\ ~flushOk
              THEN sess' = [sess EXCEPT ![p].pc = "except", ![p].pending = pending1,
                                        ![p].error = "IntegrityError"]
              ELSE IF found
                THEN sess' = [sess EXCEPT
                        ![p].pending = pending2, ![p].flushed = flushed2,
                        ![p].loaded = (item.id :> new_stock) @@ s.loaded,
                        ![p].low_stock_items =
                            IF IsLowStock(new_stock, s.low_stock_threshold)
                              THEN Append(s.low_stock_items, item.id)
                              ELSE s.low_stock_items,
                        ![p].i = s.i + 1]
                ELSE sess' = [sess EXCEPT ![p].pending = pending2, ![p].flushed = flushed2,
                                          ![p].i = s.i + 1]
        /\ DbUnchanged
        /\ UNCHANGED <<nextSaleId, nextNotifId, nextAuditId, started>>

\* process_sale, line 2196: db.session.commit().  The flush writes the value
\* the session computed for each part it loaded (UPDATE parts SET
\* stock_quantity = <value>).  While another open transaction holds a lock
\* on such a row the commit waits; two requests waiting for each other are a
\* deadlock, which the storage ends by failing one of them.
SaleCommit(p) ==
    LET s == sess[p]
    IN  /\ s.pc = "lines"
        /\ s.i > Len(s.data.items)
        /\ \E fault \in BOOLEAN :
             IF fault \/ ~FlushOk(s.pending, s.flushed)
               THEN /\ sess' = [sess EXCEPT ![p].pc = "except",
                                              ![p].error = IF fault THEN "OperationalError"
                                                                    ELSE "IntegrityError"]
                    /\ UNCHANGED <<parts, sales, sale_details>>
               ELSE /\ ~LockWait(p)
                    /\ sales' = sales \cup {s.new_sale}
                    /\ sale_details' = sale_details \cup s.flushed \cup SeqToSet(s.pending)
                    /\ parts' = [id \in DOMAIN parts |->
                                    IF id \in DOMAIN s.loaded THEN s.loaded[id] ELSE parts[id]]
                    /\ sess' = [sess EXCEPT ![p].pc = "critical", ![p].i = 1,
                                              ![p].committed = TRUE,
                                              ![p].pending = <<>>, ![p].flushed = {},
                                              ![p].loaded = <<>>]
        /\ UNCHANGED <<notifications, audit_logs, users, settings,
                       nextSaleId, nextNotifId, nextAuditId, started>>

\* Rollback that undoes the whole request, committed work included
RollbackToRequestStart(s) ==
    [parts |-> s.pre.parts, sales |-> s.pre.sales, sale_details |-> s.pre.sale_details]

\* db.session.rollback(), line 2297: the uncommitted work of the session is
\* dropped, the committed tables stay
Rollback(s) == [parts |-> parts, sales |-> sales, sale_details |-> sale_details]

\* process_sale, lines 2296-2301: the handler of every exception.
SaleExcept(p) ==
    /\ sess[p].pc = "except"
    /\ parts' = Rollback(sess[p]).parts
    /\ sales' = Rollback(sess[p]).sales
    /\ sale_details' = Rollback(sess[p]).sale_details
    /\ sess' = [sess EXCEPT ![p] =
                  IdleSession([success |-> FALSE, status |-> 500, sale_id |-> 0,
                               receipt_number |-> 0, message |-> sess[p].error,
                               sale |-> sess[p].new_sale.id,
                               committed |-> sess[p].committed])]
    /\ UNCHANGED <<notifications, audit_logs, users, settings>>
    /\ UNCHANGED <<nextSaleId, nextNotifId, nextAuditId, started>>

\* FanOut for a fan-out that writes the notifications of all the users
\* whatever fails on the way
FanOutRetried(targets, written, title, type, category, part, sale) ==
    /\ written \in 0..Len(targets)
    /\ notifications' = notifications \cup
          NotificationRows(targets, Len(targets), title, type, category, part, sale)
    /\ nextNotifId' = nextNotifId + Len(targets)

\* create_notification_for_role, lines 268-275, called for the roles in turn:
\* one create_notification (add, commit) per user.  written is the number of
\* rows committed before the storage fails; written = Len(targets) is the call
\* that does not fail.
FanOut(targets, written, title, type, category, part, sale) ==
    /\ written \in 0..Len(targets)
    /\ notifications' = notifications \cup
          NotificationRows(targets, written, title, type, category, part, sale)
    /\ nextNotifId' = nextNotifId + written

\* process_sale, lines 2199-2210: one iteration of the critical-stock loop.
\* The commit expired the part, so part.stock_quantity reloads the row.
SaleCritical(p) ==
    LET s == sess[p]
        id == s.low_stock_items[s.i]
        targets == RoleUsers("manager")
    IN  /\ s.pc = "critical"
        /\ s.i <= Len(s.low_stock_items)
        /\ IF IsCritical(parts[id])
              THEN \E written \in 0..Len(targets) :
                     /\ FanOut(targets, written, "Critical Stock Alert", "warning",
                               "inventory", id, s.new_sale.id)
                     /\ sess' = IF written < Len(targets)
                                  THEN [sess EXCEPT ![p].pc = "except", ![p].error = "OperationalError"]
                                  ELSE [sess EXCEPT ![p].i = s.i + 1]
              ELSE /\ sess' = [sess EXCEPT ![p].i = s.i + 1]
                   /\ UNCHANGED <<notifications, nextNotifId>>
        /\ UNCHANGED <<parts, sales, sale_details, audit_logs, users, settings,
                       nextSaleId, nextAuditId, started>>

\* CompletionDue for a completion notification written ahead of the commit
CompletionDueBeforeCommit(s) == s.pc = "lines" /\ s.i > Len(s.data.items)

\* the place of the completion notification in process_sale: line 2212, after
\* the commit of line 2196 and the critical-stock loop of lines 2199-2210
CompletionDue(s) == s.pc = "critical" /\ s.i > Len(s.low_stock_items)

\* CompletionOwner for a notification that goes to the first manager
CompletionOwnerManager(s) == RoleUsers("manager")[1]

\* current_user.id, line 2215: the staff member who processed the sale
CompletionOwner(s) == s.data.user

\* process_sale, lines 2212-2222: the completion notification.
SaleCompletion(p) ==
    LET s == sess[p]
    IN  /\ CompletionDue(s)
        /\ \E written \in 0..1 :
             /\ FanOut(<<CompletionOwner(s)>>, written, "Sale Completed", "success",
                       "sales", 0, s.new_sale.id)
             /\ sess' = IF written < 1
                          THEN [sess EXCEPT ![p].pc = "except", ![p].error = "OperationalError"]
                          ELSE [sess EXCEPT ![p].pc = "high_value"]
        /\ UNCHANGED <<parts, sales, sale_details, audit_logs, users, settings,
                       nextSaleId, nextAuditId, started>>

\* lines 2225-2231: the stored threshold, or 5000.0 when there is none or
\* float() rejects it
HighValueThreshold ==
    IF HighKey \in DOMAIN settings /\ IsNumeral(settings[HighKey])
      THEN Numerals[settings[HighKey]]
      ELSE DefaultHighValueThreshold

\* IsHighValue with > in the place of >=
IsHighValueStrict(total_amount, threshold) == total_amount > threshold

\* the test of the high-value trigger, line 2233
IsHighValue(total_amount, threshold) == total_amount >= threshold

\* process_sale, lines 2224-2252: the high-value trigger.  The SELECT of the
\* threshold opens the transaction in which the rest of the request reads;
\* every notification written ends it with its commit.  sales_seen is the
\* number of sales in the snapshot of a transaction left open (0: none open).
SaleHighValue(p) ==
    LET s == sess[p]
        targets == RoleUsers("manager") \o RoleUsers("admin")
    IN  /\ s.pc = "high_value"
        /\ IF IsHighValue(s.new_sale.total_amount, HighValueThreshold)
              THEN \E written \in 0..Len(targets) :
                     /\ FanOut(targets, written, "High Value Sale", "warning",
                               "sales", 0, s.new_sale.id)
                     /\ sess' = IF written < Len(targets)
                                  THEN [sess EXCEPT ![p].pc = "except", ![p].error = "OperationalError"]
                                  ELSE [sess EXCEPT ![p].pc = "milestone",
                                                    ![p].sales_seen =
                                                        IF targets = <<>> THEN Cardinality(sales)
                                                                          ELSE 0]
              ELSE /\ sess' = [sess EXCEPT ![p].pc = "milestone",
                                            ![p].sales_seen = Cardinality(sales)]
                   /\ UNCHANGED <<notifications, nextNotifId>>
        /\ UNCHANGED <<parts, sales, sale_details, audit_logs, users, settings,
                       nextSaleId, nextAuditId, started>>

\* IsMilestone without the test of the remainder
IsMilestoneAlways(total_sales_count) == total_sales_count > 0

\* the test of the milestone trigger, line 2257
IsMilestone(total_sales_count) ==
    total_sales_count > 0 /\ total_sales_count % MilestoneEvery = 0

\* process_sale, lines 2254-2279: the milestone trigger.  Its try/except
\* swallows a failure of the count or of a notification write.
SaleMilestone(p) ==
    LET s == sess[p]
        targets == RoleUsers("manager") \o RoleUsers("admin")
        \* Sale.query.count(), line 2256
        total_sales_count == IF s.sales_seen = 0 THEN Cardinality(sales) ELSE s.sales_seen
    IN  /\ s.pc = "milestone"
        /\ \/ \* Sale.query.count() raises
              /\ sess' = [sess EXCEPT ![p].pc = "audit", ![p].swallowed = TRUE]
              /\ UNCHANGED <<notifications, nextNotifId>>
           \/ IF IsMilestone(total_sales_count)
                THEN \E written \in 0..Len(targets) :
                       /\ FanOut(targets, written, "Sales Milestone Reached", "info",
                                 "sales", 0, s.new_sale.id)
                       /\ sess' = [sess EXCEPT ![p].pc = "audit",
                                               ![p].swallowed = (written < Len(targets))]
                ELSE /\ sess' = [sess EXCEPT ![p].pc = "audit"]
                     /\ UNCHANGED <<notifications, nextNotifId>>
        /\ UNCHANGED <<parts, sales, sale_details, audit_logs, users, settings,
                       nextSaleId, nextAuditId, started>>

\* AuditRow without the cart
AuditRowWithoutCart(s) ==
    [id |-> nextAuditId, user_id |-> s.data.user, action_type |-> "create",
     table_name |-> "sales", record_id |-> s.new_sale.id,
     new_values |-> [total_amount |-> s.new_sale.total_amount,
                     customer_id |-> s.data.customer_id, items |-> <<>>]]

\* log_audit, lines 498-514, as process_sale calls it
AuditRow(s) ==
    [id |-> nextAuditId, user_id |-> s.data.user, action_type |-> "create",
     table_name |-> "sales", record_id |-> s.new_sale.id,
     new_values |-> [total_amount |-> s.new_sale.total_amount,
                     customer_id |-> s.data.customer_id, items |-> s.data.items]]

\* process_sale, lines 2281-2294: the audit entry and the success response.
\* The commit of log_audit may fail in the storage; after a failure that the
\* milestone trigger swallowed the session has not been rolled back, which
\* is one more reason for it to raise.
SaleAudit(p) ==
    LET s == sess[p]
    IN  /\ s.pc = "audit"
        /\ \E fault \in BOOLEAN :
             IF fault
               THEN /\ sess' = [sess EXCEPT ![p].pc = "except",
                                              ![p].error = "OperationalError"]
                    /\ UNCHANGED <<audit_logs, nextAuditId>>
               ELSE /\ audit_logs' = audit_logs \cup {AuditRow(s)}
                    /\ nextAuditId' = nextAuditId + 1
                    /\ sess' = [sess EXCEPT ![p] =
                          IdleSession([success |-> TRUE, status |-> 200,
                                       sale_id |-> s.new_sale.id,
                                       receipt_number |-> s.new_sale.receipt_number,
                                       message |-> "Sale processed successfully",
                                       sale |-> s.new_sale.id,
                                       committed |-> s.committed])]
        /\ UNCHANGED <<parts, sales, sale_details, notifications, users, settings,
                       nextSaleId, nextNotifId, started>>

\* current_user.can_manage_inventory()
CanManageInventory(u) == users[u] = "admin" \/ users[u] = "manager"

\* handle_parts, POST /api/parts, lines 2116-2140.
PartCreate(p) ==
    /\ sess[p].pc = "idle"
    /\ \E u \in DOMAIN users : CanManageInventory(u)
    /\ \E q \in StockInputs :
         LET id == Cardinality(DOMAIN parts) + 1
         IN  /\ id \in PartIds
             /\ parts' = (id :> q) @@ parts
    /\ UNCHANGED <<sales, sale_details, notifications, audit_logs, users, settings,
                   nextSaleId, nextNotifId, nextAuditId, started, sess>>

\* handle_part, PUT /api/parts/<id>, lines 2702-2731.
PartUpdate(p) ==
    /\ sess[p].pc = "idle"
    /\ \E u \in DOMAIN users : CanManageInventory(u)
    /\ \E id \in DOMAIN parts, q \in StockInputs :
         parts' = [parts EXCEPT ![id] = q]
    /\ UNCHANGED <<sales, sale_details, notifications, audit_logs, users, settings,
                   nextSaleId, nextNotifId, nextAuditId, started, sess>>

\* api_settings, POST/PUT /api/settings, lines 1147-1179 (manager_required).
SettingsStore(p, inputs) ==
    /\ sess[p].pc = "idle"
    /\ \E u \in DOMAIN users : CanManageInventory(u)
    /\ \E kv \in inputs :
         settings' = (kv[1] :> kv[2]) @@ settings
    /\ UNCHANGED <<parts, sales, sale_details, notifications, audit_logs, users,
                   nextSaleId, nextNotifId, nextAuditId, started, sess>>

\* the inventory settings are stored
SettingsUpdate(p) == SettingsStore(p, SettingInputs)

\* the sales settings are stored
SalesSettingsUpdate(p) == SettingsStore(p, SalesSettingInputs)

Next ==
    \E p \in SeqWorkers :
        \/ SaleBegin(p)
        \/ SaleThreshold(p)
        \/ SaleLine(p)
        \/ SaleCommit(p)
        \/ SaleCritical(p)
        \/ SaleCompletion(p)
        \/ SaleHighValue(p)
        \/ SaleMilestone(p)
        \/ SaleAudit(p)
        \/ SaleExcept(p)
        \/ PartCreate(p)
        \/ PartUpdate(p)
        \/ SettingsUpdate(p)

Spec == Init /\ [][Next]_vars

\* The sale handler with the sales settings under an administrator's hand,
\* started before the 9th and before the 10th sale.
TriggerInit == \E n \in TriggerSaleCounts : InitFrom(n)

TriggerNext ==
    \E p \in SeqWorkers :
        \/ SaleBegin(p)
        \/ SaleThreshold(p)
        \/ SaleLine(p)
        \/ SaleCommit(p)
        \/ SaleCritical(p)
        \/ SaleCompletion(p)
        \/ SaleHighValue(p)
        \/ SaleMilestone(p)
        \/ SaleAudit(p)
        \/ SaleExcept(p)
        \/ SalesSettingsUpdate(p)

TriggerSpec == TriggerInit /\ [][TriggerNext]_vars

\* ---------------------------------------------------------------------------
\* Two workers of the web server running process_sale at the same time, each
\* with its own session and transaction, interleaved at the statements that
\* reach the database.
ConcInit == \E n \in ConcSaleCounts : InitFrom(n)

SaleBeginConcurrent(p) == SaleBeginWith(p, ConcRequests, MaxConcurrentSales)

ConcNext ==
    \E p \in Workers :
        \/ SaleBeginConcurrent(p)
        \/ SaleThreshold(p)
        \/ SaleLine(p)
        \/ SaleCommit(p)
        \/ SaleCritical(p)
        \/ SaleCompletion(p)
        \/ SaleHighValue(p)
        \/ SaleMilestone(p)
        \/ SaleAudit(p)
        \/ SaleExcept(p)

ConcSpec == ConcInit /\ [][ConcNext]_vars

\* ------------------------------------------------- staff and notifications
\* new_values of an audit entry that was given none
NoValues == [total_amount |-> 0, customer_id |-> 0, items |-> <<>>]

LoginRows == {a \in audit_logs : a.action_type = "login"}

\* dashboard, lines 748-759: log_audit('login', 'dashboard',
\* user_id=current_user.id) for the user who views it.
Dashboard(p) ==
    /\ sess[p].pc = "idle"
    /\ Cardinality(LoginRows) < MaxLogins
    /\ \E u \in DOMAIN users :
         audit_logs' = audit_logs \cup
            {[id |-> nextAuditId, user_id |-> u, action_type |-> "login",
              table_name |-> "dashboard", record_id |-> 0, new_values |-> NoValues]}
    /\ nextAuditId' = nextAuditId + 1
    /\ UNCHANGED <<parts, sales, sale_details, notifications, users, settings,
                   nextSaleId, nextNotifId, started, sess>>

\* handle_staff_member, PUT /api/staff/<id>, lines 2811-2825 (admin_required):
\* the role of a staff member is changed.
StaffUpdate(p) ==
    /\ sess[p].pc = "idle"
    /\ \E a \in DOMAIN users : users[a] = "admin"
    /\ \E x \in RoleChangeTargets \cap DOMAIN users, role \in RoleInputs :
         users' = [users EXCEPT ![x] = role]
    /\ UNCHANGED <<parts, sales, sale_details, notifications, audit_logs, settings,
                   nextSaleId, nextNotifId, nextAuditId, started, sess>>

\* handle_staff_member, DELETE /api/staff/<id>, lines 2827-2833
\* (admin_required).  The flush of db.session.delete(user) handles the rows
\* that reference the user by their relationship: notifications are deleted
\* (cascade 'all, delete-orphan', line 170); sales and audit_logs have no
\* delete cascade (lines 97, 417), so their foreign key is set to NULL,
\* which sales.staff_id (nullable=False, line 371) refuses: the delete of
\* a user with sales fails as a whole.  NULL is written 0.
StaffDelete(p) ==
    /\ sess[p].pc = "idle"
    /\ \E a \in DOMAIN users, x \in DOMAIN users :
         /\ users[a] = "admin"
         /\ x # a
         /\ IF \E t \in sales : t.staff_id = x
               THEN UNCHANGED <<users, notifications, audit_logs>>
               ELSE /\ users' = [u \in DOMAIN users \ {x} |-> users[u]]
                    /\ notifications' = {n \in notifications : n.user_id # x}
                    /\ audit_logs' = {IF e.user_id = x THEN [e EXCEPT !.user_id = 0] ELSE e :
                                          e \in audit_logs}
    /\ UNCHANGED <<parts, sales, sale_details, settings,
                   nextSaleId, nextNotifId, nextAuditId, started, sess>>

\* create_notification_for_role(role, title, ...), lines 268-275, in a call
\* that returns: one create_notification per user of the role.
NotifyRoleCall(role, title) ==
    /\ Cardinality(notifications) < MaxNotifications
    /\ FanOut(RoleUsers(role), Len(RoleUsers(role)), title, "info", "system", 0, 0)
    /\ UNCHANGED <<parts, sales, sale_details, audit_logs, users, settings,
                   nextSaleId, nextAuditId, started, sess>>

NotifyRole(p) ==
    /\ sess[p].pc = "idle"
    /\ \E role \in Roles, title \in NoticeTitles : NotifyRoleCall(role, title)

\* User.query.all(), line 279
AllUsers == SortedSeq(DOMAIN users)

\* create_notification_for_all(title, ...), lines 277-284, in a call that
\* returns: one create_notification per user.
NotifyAllCall(title) ==
    /\ Cardinality(notifications) < MaxNotifications
    /\ FanOut(AllUsers, Len(AllUsers), title, "info", "system", 0, 0)
    /\ UNCHANGED <<parts, sales, sale_details, audit_logs, users, settings,
                   nextSaleId, nextAuditId, started, sess>>

NotifyAll(p) ==
    /\ sess[p].pc = "idle"
    /\ \E title \in NoticeTitles : NotifyAllCall(title)

StaffNext ==
    \E p \in SeqWorkers :
        \/ Dashboard(p)
        \/ StaffUpdate(p)
        \/ StaffDelete(p)
        \/ NotifyRole(p)
        \/ NotifyAll(p)

StaffSpec == Init /\ [][StaffNext]_vars

\* ---------------------------------------------------------------------------
\* The notification handlers.  u is current_user.id, id the notification_id
\* of the URL: any id the table has handed out, whoever owns the row.
NotificationIds == 1..(nextNotifId - 1)

\* OwnedBy for a filter on the id alone
OwnedByAnyone(n, u) == TRUE

\* filter_by(..., user_id=user_id), lines 288, 298, 1406, 1421
OwnedBy(n, u) == n.user_id = u

NotificationsUnchangedElse ==
    UNCHANGED <<parts, sales, sale_details, audit_logs, users, settings,
                nextSaleId, nextNotifId, nextAuditId, started, sess>>

\* mark_notification_as_read, lines 1378-1390, with mark_notification_read,
\* lines 286-294: 404 when u has no such notification or it is already read
MarkReadBy(u, id) ==
    /\ \E now \in ReadTimes :
         notifications' =
            {IF n.id = id /\ OwnedBy(n, u) /\ ~n.is_read
               THEN [n EXCEPT !.is_read = TRUE, !.read_at = now] ELSE n : n \in notifications}
    /\ NotificationsUnchangedElse

\* mark_all_notifications_as_read, lines 1392-1400, with
\* mark_all_notifications_read, lines 296-303
MarkAllReadBy(u) ==
    /\ \E now \in ReadTimes :
         notifications' =
            {IF OwnedBy(n, u) /\ ~n.is_read
               THEN [n EXCEPT !.is_read = TRUE, !.read_at = now] ELSE n : n \in notifications}
    /\ NotificationsUnchangedElse

\* delete_notification, lines 1402-1415: 404 when u has no such notification
DeleteBy(u, id) ==
    /\ notifications' = {n \in notifications : ~(n.id = id /\ OwnedBy(n, u))}
    /\ NotificationsUnchangedElse

\* clear_all_notifications, lines 1417-1426
ClearAllBy(u) ==
    /\ notifications' = {n \in notifications : ~OwnedBy(n, u)}
    /\ NotificationsUnchangedElse

MarkRead(p) ==
    /\ sess[p].pc = "idle"
    /\ \E u \in DOMAIN users, id \in NotificationIds : MarkReadBy(u, id)

MarkAllRead(p) ==
    /\ sess[p].pc = "idle"
    /\ \E u \in DOMAIN users : MarkAllReadBy(u)

NotificationDelete(p) ==
    /\ sess[p].pc = "idle"
    /\ \E u \in DOMAIN users, id \in NotificationIds : DeleteBy(u, id)

NotificationsClearAll(p) ==
    /\ sess[p].pc = "idle"
    /\ \E u \in DOMAIN users : ClearAllBy(u)

\* NotifyRole while the table has handed out at most MaxNotifications ids
NotifyRoleBounded(p) ==
    /\ nextNotifId <= MaxNotifications
    /\ NotifyRole(p)

NotificationNext ==
    \E p \in SeqWorkers :
        \/ NotifyRoleBounded(p)
        \/ MarkRead(p)
        \/ MarkAllRead(p)
        \/ NotificationDelete(p)
        \/ NotificationsClearAll(p)

NotificationSpec == Init /\ [][NotificationNext]_vars

\* ------------------------------------------------------------------ claims
CartIds(items) == {items[j].id : j \in 1..Len(items)}
QuantityOf(items, id) == items[CHOOSE j \in 1..Len(items) : items[j].id = id].quantity
AllPositive(items) == \A j \in 1..Len(items) : items[j].quantity > 0
AllDistinct(items) == \A j, h \in 1..Len(items) : items[j].id = items[h].id => j = h
AllExisting(items, stock) == CartIds(items) \subseteq DOMAIN stock
NoNegativeStock(stock) == \A id \in DOMAIN stock : stock[id] >= 0
Max0(n) == IF n < 0 THEN 0 ELSE n

\* the invocation has passed its commit; the triggers are running
AfterCommit(s) == s.committed
\* the invocation has finished the critical-stock trigger without a failure
CriticalDone(s) == s.pc \in {"high_value", "milestone", "audit"}
\* the invocation has returned and its commit had succeeded
ReturnedCommitted(s) == s.pc = "idle" /\ s.response.committed
\* the committed sale has line items, all of positive quantity
IsRegularSale(id) ==
    /\ \E d \in sale_details : d.sale_id = id
    /\ \A d \in sale_details : d.sale_id = id => d.quantity > 0

CriticalAlerts(sale, part, user) ==
    {n \in notifications : /\ n.title = "Critical Stock Alert"
                           /\ n.sale = sale /\ n.part = part /\ n.user_id = user}

\* C1: for a cart of positive quantities over existing, pairwise distinct
\* items, once process_sale has committed the stock of each sold item is
\* max(0, stock before - quantity sold) and every other item's stock is as
\* it was before the call.
C1_StockAfterSale ==
    \A p \in Workers :
        LET s == sess[p]
            items == s.data.items
        IN  ( /\ AfterCommit(s)
              /\ AllPositive(items) /\ AllDistinct(items) /\ AllExisting(items, s.pre.parts) )
            => /\ DOMAIN parts = DOMAIN s.pre.parts
               /\ \A id \in DOMAIN parts :
                     parts[id] = IF id \in CartIds(items)
                                   THEN Max0(s.pre.parts[id] - QuantityOf(items, id))
                                   ELSE s.pre.parts[id]

\* a committed sale that sold more than was on hand, while another part
\* was not in the cart
C1_Witness ==
    \E p \in Workers :
        LET s == sess[p]
            items == s.data.items
        IN  /\ AfterCommit(s)
            /\ AllPositive(items) /\ AllDistinct(items) /\ AllExisting(items, s.pre.parts)
            /\ \E id \in CartIds(items) :
                  s.pre.parts[id] >= 0 /\ s.pre.parts[id] < QuantityOf(items, id)
            /\ DOMAIN s.pre.parts \ CartIds(items) # {}

\* C2: in every reachable state every part's stock quantity is >= 0.
C2_StockNonNegative == NoNegativeStock(parts)

\* C3: when process_sale fails at or before its commit, the persistent state
\* after the call (sales, line items, stock, notifications, audit entries)
\* equals the state before the call.
C3_FailedSaleLeavesNoTrace ==
    [][\A p \in Workers :
          (sess[p].pc = "except" /\ ~sess[p].committed) => Snapshot' = sess[p].pre]_vars

\* an invocation failed after it had flushed its Sale and decremented stock
\* in its session
C3_Witness ==
    \E p \in Workers :
        /\ sess[p].pc = "except" /\ ~sess[p].committed
        /\ sess[p].new_sale # NoSale
        /\ DOMAIN sess[p].loaded # {}

\* C4: process_sale rejects an empty cart, and a cart with a line of
\* non-positive quantity, before any mutation: such a request is never
\* committed.
C4_InvalidCartRejected ==
    \A p \in Workers :
        LET s == sess[p]
        IN  (s.pc # "idle" /\ (s.data.items = <<>> \/ ~AllPositive(s.data.items)))
            => ~s.committed

\* C5: process_sale rejects a request whose customer id or whose item ids
\* do not all reference existing records, before any mutation: no Sale is
\* created for it, not even inside the transaction.
C5_UnknownReferenceRejected ==
    \A p \in Workers :
        LET s == sess[p]
            unknown == \/ ~AllExisting(s.data.items, s.pre.parts)
                       \/ ~(s.data.customer_id = 0 \/ s.data.customer_id \in Customers)
        IN  (s.pc # "idle" /\ s.data.has_total /\ unknown) => s.new_sale = NoSale

\* C6: once the commit of a sale has succeeded, no later step of the same
\* invocation, a failing one and the exception handler included, changes
\* the sales, the line items or the stock.
C6_CommittedSaleStays ==
    [][\A p \in Workers :
          sess[p].committed =>
              <<sales, sale_details, parts>>' = <<sales, sale_details, parts>>]_vars

\* a step after the commit has failed
C6_Witness ==
    \E p \in Workers : sess[p].committed /\ sess[p].pc = "except"

\* C7: an invocation whose commit succeeded answers success: true, whatever
\* happens in the notification and audit writes after it.
C7_CommittedSaleReportsSuccess ==
    \A p \in Workers :
        (ReturnedCommitted(sess[p]) /\ IsRegularSale(sess[p].response.sale))
            => sess[p].response.success

\* C8: a failure in one trigger keeps neither the later triggers nor the
\* audit entry from being written: every invocation that committed leaves
\* a completion notification and an audit entry for its sale.
C8_TriggersIndependent ==
    \A p \in Workers :
        (ReturnedCommitted(sess[p]) /\ IsRegularSale(sess[p].response.sale)) =>
            /\ \E n \in notifications :
                  n.title = "Sale Completed" /\ n.sale = sess[p].response.sale
            /\ \E a \in audit_logs :
                  a.table_name = "sales" /\ a.record_id = sess[p].response.sale

\* C9: for a sale of positive quantities out of non-negative stock, once the
\* critical-stock trigger is through, each sold item has exactly one
\* critical-stock notification per manager when its stock is <= 2, none for
\* other users, and none at all when its stock is > 2 - whatever the
\* low-stock threshold is.
C9_CriticalAlertPerManager ==
    \A p \in Workers :
        LET s == sess[p]
        IN  (CriticalDone(s) /\ AllPositive(s.data.items) /\ NoNegativeStock(s.pre.parts))
            => \A id \in CartIds(s.data.items), u \in DOMAIN users :
                  Cardinality(CriticalAlerts(s.new_sale.id, id, u)) =
                      IF parts[id] <= CriticalStockLevel /\ users[u] = "manager" THEN 1 ELSE 0

ReturnedSuccess(s) == s.pc = "idle" /\ s.response.success
\* the persisted Sale with the given id
SaleRow(id) == CHOOSE t \in sales : t.id = id
CompletionNotices(id) == {n \in notifications : n.title = "Sale Completed" /\ n.sale = id}

\* C11: every sale that process_sale reports as successful has exactly one
\* completion notification, of type success and category sales, and it is
\* owned by the staff member who processed the sale (the Sale's staff_id);
\* no other user has one.
C11_OneCompletionNotice ==
    \A p \in Workers :
        ReturnedSuccess(sess[p]) =>
            LET id == sess[p].response.sale
            IN  /\ Cardinality(CompletionNotices(id)) = 1
                /\ \A n \in CompletionNotices(id) :
                      /\ n.user_id = SaleRow(id).staff_id
                      /\ n.type = "success" /\ n.category = "sales"

\* a successful sale by a staff member who is no manager, which also
\* notified the managers about critical stock
C11_Witness ==
    \E p \in Workers :
        /\ ReturnedSuccess(sess[p])
        /\ users[SaleRow(sess[p].response.sale).staff_id] = "staff"
        /\ \E n \in notifications :
              n.sale = sess[p].response.sale /\ n.title = "Critical Stock Alert"

\* the high-value trigger of the invocation is through without a failure
HighValueDone(s) == s.pc \in {"milestone", "audit"}
\* the stored high-value threshold, 5000 when none is stored
ConfiguredHighValue ==
    IF HighKey \in DOMAIN settings THEN Numerals[settings[HighKey]] ELSE 5000
HighValueNotices(id, u) ==
    {n \in notifications : n.title = "High Value Sale" /\ n.sale = id /\ n.user_id = u}

\* C12: once the high-value trigger of a committed sale is through, the
\* sale has exactly one high-value notification, of category sales, for
\* each manager and each admin when its declared total is >= the configured
\* threshold (5000 when none is stored), and no high-value notification at
\* all when the total is below it.
C12_HighValueNotices ==
    \A p \in Workers :
        LET s == sess[p]
        IN  HighValueDone(s) =>
              \A u \in DOMAIN users :
                 /\ Cardinality(HighValueNotices(s.new_sale.id, u)) =
                       IF /\ s.data.total >= ConfiguredHighValue
                          /\ users[u] \in {"manager", "admin"}
                         THEN 1 ELSE 0
                 /\ \A n \in HighValueNotices(s.new_sale.id, u) : n.category = "sales"

\* a sale whose total equals the threshold has notified the admin
C12_Witness ==
    \E p \in Workers :
        LET s == sess[p]
        IN  /\ HighValueDone(s)
            /\ s.data.total = ConfiguredHighValue
            /\ \E u \in DOMAIN users :
                  users[u] = "admin" /\ HighValueNotices(s.new_sale.id, u) # {}

\* the number of persisted sales up to the given one: the sale is the
\* n-th all-time sale
SaleRank(id) == Cardinality({t \in sales : t.id <= id})
MilestoneNotices(id, u) ==
    {n \in notifications :
        n.title = "Sales Milestone Reached" /\ n.sale = id /\ n.user_id = u}
\* the milestone trigger of the invocation is through and the storage did
\* not fail inside it
MilestoneDone(s) == s.pc = "audit" /\ ~s.swallowed

\* C13: with sales executed one after another, once the milestone trigger
\* of the n-th persisted sale is through (the storage not failing inside
\* it), the sale has exactly one milestone notification for each manager
\* and each admin when n is a positive multiple of 10, and none at all when
\* n is no multiple of 10.
C13_MilestoneEveryTenth ==
    \A p \in Workers :
        LET s == sess[p]
            n == SaleRank(s.new_sale.id)
        IN  MilestoneDone(s) =>
              \A u \in DOMAIN users :
                 Cardinality(MilestoneNotices(s.new_sale.id, u)) =
                    IF n > 0 /\ n % 10 = 0 /\ users[u] \in {"manager", "admin"}
                      THEN 1 ELSE 0

\* the 10th all-time sale has notified the admin
C13_Witness ==
    \E p \in Workers :
        LET s == sess[p]
        IN  /\ MilestoneDone(s)
            /\ SaleRank(s.new_sale.id) = 10
            /\ \E u \in DOMAIN users :
                  users[u] = "admin" /\ MilestoneNotices(s.new_sale.id, u) # {}

\* C14: no two persisted Sales carry the same receipt identifier, whatever
\* the receipt generator returns.
C14_ReceiptsUnique ==
    \A a, b \in sales : a.receipt_number = b.receipt_number => a = b

\* the generator returned the receipt identifier of an earlier sale and the
\* request was refused on the INSERT of its Sale
C14_Witness ==
    \E p \in Workers :
        LET s == sess[p]
        IN  /\ s.pc = "except" /\ s.error = "IntegrityError"
            /\ s.data.has_total /\ s.new_sale = NoSale
            /\ (s.data.customer_id = 0 \/ s.data.customer_id \in Customers)

\* the line items of a sale, and the sum of quantity x price over them
DetailsOf(id) == {d \in sale_details : d.sale_id = id}
RECURSIVE DetailSum(_)
DetailSum(S) ==
    IF S = {} THEN 0
    ELSE LET d == CHOOSE x \in S : TRUE
         IN  d.quantity * d.price_at_sale + DetailSum(S \ {d})

\* C15: the total amount of every persisted Sale with line items of
\* positive quantity equals the sum over its line items of quantity x unit
\* price at sale.
C15_TotalIsLineSum ==
    \A t \in sales : IsRegularSale(t.id) => t.total_amount = DetailSum(DetailsOf(t.id))

\* the line item a cart line is stored as
StoredLine(id, item) ==
    [sale_id |-> id, part_id |-> item.id, quantity |-> item.quantity,
     price_at_sale |-> item.price]

\* C16: once an invocation has committed, the stored total is the declared
\* total, whether or not it is the sum of the lines, and the stored line
\* items are the cart lines: same item, quantity and price, one line item
\* per cart line.
C16_InputStoredVerbatim ==
    \A p \in Workers :
        LET s == sess[p]
            id == s.new_sale.id
        IN  AfterCommit(s) =>
              /\ SaleRow(id).total_amount = s.data.total
              /\ DetailsOf(id) = {StoredLine(id, s.data.items[j]) : j \in 1..Len(s.data.items)}
              /\ Cardinality(DetailsOf(id)) = Len(s.data.items)

\* a committed sale of two lines whose declared total is not their sum
C16_Witness ==
    \E p \in Workers :
        LET s == sess[p]
        IN  /\ AfterCommit(s)
            /\ Len(s.data.items) = 2
            /\ s.data.total # DetailSum(DetailsOf(s.new_sale.id))

\* the invocation has returned success: false
ReturnedFailure(s) == s.pc = "idle" /\ s.response.status # 0 /\ ~s.response.success

\* C17: the status of a failed process_sale tells the cause: a malformed
\* payload (no total) is answered with a 400-class status, a failure of the
\* storage with a 500-class status.
C17_StatusTellsCause ==
    \A p \in Workers :
        LET r == sess[p].response
        IN  ReturnedFailure(sess[p]) =>
              /\ r.message = "KeyError" => r.status \in 400..499
              /\ r.message \in {"OperationalError", "IntegrityError"} => r.status \in 500..599

\* the audit entries of kind create for entity type sales with the given id
SaleAudits(id) ==
    {a \in audit_logs :
        a.action_type = "create" /\ a.table_name = "sales" /\ a.record_id = id}

\* C18: every sale that process_sale reports as successful has exactly one
\* audit entry of kind create for entity type sales with its id, and the
\* entry records the sale's total and cart; an audit entry of that kind
\* exists only for a committed sale.
C18_OneAuditEntryPerSale ==
    /\ \A p \in Workers :
          ReturnedSuccess(sess[p]) =>
              LET id == sess[p].response.sale
              IN  /\ Cardinality(SaleAudits(id)) = 1
                  /\ \A a \in SaleAudits(id) :
                        /\ a.new_values.total_amount = SaleRow(id).total_amount
                        /\ {StoredLine(id, a.new_values.items[j]) :
                               j \in 1..Len(a.new_values.items)} = DetailsOf(id)
    /\ \A a \in audit_logs :
          (a.action_type = "create" /\ a.table_name = "sales")
              => \E t \in sales : t.id = a.record_id

\* a sale with line items was reported successful
C18_Witness ==
    \E p \in Workers :
        /\ ReturnedSuccess(sess[p])
        /\ IsRegularSale(sess[p].response.sale)
        /\ SaleAudits(sess[p].response.sale) # {}

\* C19: the audit trail is append-only: every audit entry that is recorded
\* is there, with all its fields as they were, after every step of the
\* application, the deletion of the staff member who is its actor included.
C19_AuditAppendOnly ==
    [][\A a \in audit_logs : a \in audit_logs']_vars

\* the rows a step has added to the notifications
NewNotices == notifications' \ notifications

\* C20: a call of create_notification_for_role(role, ...) that returns adds
\* exactly one notification for each user who holds the role at the call
\* and none for any other user; a call of create_notification_for_all adds
\* exactly one for each user; the notifications stored before stay, so that
\* a call identical to an earlier one adds its notifications once more.
C20_FanOutPerUser ==
    [][/\ \A role \in Roles, title \in NoticeTitles :
             NotifyRoleCall(role, title) =>
                 /\ notifications \subseteq notifications'
                 /\ \A n \in NewNotices : n.user_id \in DOMAIN users /\ n.title = title
                 /\ \A u \in DOMAIN users :
                       Cardinality({n \in NewNotices : n.user_id = u}) =
                           IF users[u] = role THEN 1 ELSE 0
       /\ \A title \in NoticeTitles :
             NotifyAllCall(title) =>
                 /\ notifications \subseteq notifications'
                 /\ \A n \in NewNotices : n.user_id \in DOMAIN users /\ n.title = title
                 /\ \A u \in DOMAIN users :
                       Cardinality({n \in NewNotices : n.user_id = u}) = 1]_vars

\* a user whose role was changed holds two notifications that differ in
\* nothing but their id: two identical calls were made
C20_Witness ==
    /\ \E n, m \in notifications :
          /\ n.id # m.id
          /\ [n EXCEPT !.id = 0] = [m EXCEPT !.id = 0]
          /\ n.user_id \in RoleChangeTargets
    /\ \E u \in RoleChangeTargets \cap DOMAIN users : users[u] # InitUsers[u]

\* ---------------------------------------------------------------------------
\* C21: when two concurrent invocations sell the same item and both succeed,
\* no decrement is lost: with stock s before both and quantities q1 and q2
\* the stock afterwards is max(0, s - q1 - q2).
\* The module's two runs of the workers issue MaxConcurrentSales = 2 INSERTs
\* between them, so when both have returned success the two sales are the
\* only ones since the start, where part 1 had InitParts[1] units.
SoldQuantity(id) == (CHOOSE d \in sale_details : d.sale_id = id /\ d.part_id = 1).quantity

C21_NoLostDecrement ==
    (\A p \in Workers : ReturnedSuccess(sess[p]))
    => parts[1] = Max0(InitParts[1] - SoldQuantity(sess[1].response.sale)
                                    - SoldQuantity(sess[2].response.sale))

\* C27: under any interleaving of concurrent invocations, a multiple of 10
\* reached by the all-time count of sales produces the milestone
\* notifications exactly once: once both invocations are through their
\* milestone trigger (the storage not failing inside it) and the count has
\* reached 10, every manager and every admin has one milestone notification,
\* not none and not two.
MilestoneNoticesOf(u) ==
    {n \in notifications : n.title = "Sales Milestone Reached" /\ n.user_id = u}

C27_MilestoneOncePerMultiple ==
    ( /\ \A p \in Workers : MilestoneDone(sess[p])
      /\ Cardinality(sales) >= MilestoneEvery )
    => \A u \in DOMAIN users :
          users[u] \in {"manager", "admin"} => Cardinality(MilestoneNoticesOf(u)) = 1

\* C22: a notification is removed only by its owner, who deletes it or clears
\* all of their notifications: every step after which a stored notification
\* is gone is one of these two operations performed by the user who owns it;
\* no other operation, the deletion of a staff member included, removes one.
C22_RemovedOnlyByOwner ==
    [][\A n \in notifications :
          (\A m \in notifications' : m.id # n.id)
          => (DeleteBy(n.user_id, n.id) \/ ClearAllBy(n.user_id))]_vars

\* C30: the notification operations are confined to their owner: when user u
\* marks a notification id as read, marks all as read, deletes an id or
\* clears all, whatever the id, the notifications of every other user are
\* afterwards as before: they exist, with the same read flag and the same
\* read timestamp.
OthersOf(u, rows) == {n \in rows : n.user_id # u}

C30_ConfinedToOwner ==
    [][\A u \in DOMAIN users :
          ( \/ MarkAllReadBy(u)
            \/ ClearAllBy(u)
            \/ \E id \in NotificationIds : MarkReadBy(u, id) \/ DeleteBy(u, id) )
          => OthersOf(u, notifications') = OthersOf(u, notifications)]_vars

\* manager 2 has removed their notifications and manager 3, notified by the
\* same fan-outs, has marked one as read and keeps another unread
C30_Witness ==
    /\ 2 \in DOMAIN users
    /\ \A n \in notifications : n.user_id # 2
    /\ \E n, m \in notifications :
          /\ n.user_id = 3 /\ n.is_read /\ n.read_at \in ReadTimes
          /\ m.user_id = 3 /\ ~m.is_read /\ m.read_at = 0

\* C23: no notification and no audit entry of a sale is written before the
\* commit of the sale has succeeded: every notification and every audit entry
\* of a sale refers to a persisted sale, an invocation that has not committed
\* has written none, and an invocation that failed at or before its commit
\* has left none.
SaleNotices(id) == {n \in notifications : n.sale = id}

C23_NothingBeforeCommit ==
    /\ \A n \in notifications : n.sale # 0 => \E t \in sales : t.id = n.sale
    /\ \A a \in audit_logs :
          (a.action_type = "create" /\ a.table_name = "sales")
              => \E t \in sales : t.id = a.record_id
    /\ \A p \in Workers :
          LET s == sess[p]
          IN  /\ (s.pc # "idle" /\ ~s.committed)
                  => /\ notifications = s.pre.notifications
                     /\ audit_logs = s.pre.audit_logs
                     /\ SaleNotices(s.new_sale.id) = {}
                     /\ SaleAudits(s.new_sale.id) = {}
              /\ (ReturnedFailure(s) /\ ~s.response.committed /\ s.response.sale # 0)
                  => SaleNotices(s.response.sale) = {} /\ SaleAudits(s.response.sale) = {}

\* an invocation that had flushed its Sale and failed at or before the commit
\* has returned
C23_Witness ==
    \E p \in Workers :
        /\ ReturnedFailure(sess[p]) /\ ~sess[p].response.committed
        /\ sess[p].response.sale # 0

\* C24: the fan-out to a role is neither atomic nor retried.  When a fan-out
\* of a committed sale fails, it has written the notifications of the first
\* N of the M users it addresses, for some N < M, and no other; the failure
\* handler leaves these N in place and writes none of the others; no later
\* step writes a notification for a sale whose invocation has failed or
\* returned; and the sale, its line items and the stock stay as committed.
FanOutTargets(s) ==
    IF s.pc = "critical"
      THEN RoleUsers("manager")
      ELSE RoleUsers("manager") \o RoleUsers("admin")

FanOutFails(p) ==
    /\ sess[p].committed
    /\ \/ sess[p].pc = "critical" /\ sess[p].i <= Len(sess[p].low_stock_items)
       \/ sess[p].pc = "high_value"
    /\ sess'[p].pc = "except"

C24_PartialFanOutStays ==
    [][/\ \A p \in Workers :
            /\ FanOutFails(p)
               => /\ \E N \in 0..(Len(FanOutTargets(sess[p])) - 1) :
                        /\ Cardinality(NewNotices) = N
                        /\ {n.user_id : n \in NewNotices}
                              = {FanOutTargets(sess[p])[j] : j \in 1..N}
                  /\ \A n \in NewNotices : n.sale = sess[p].new_sale.id
                  /\ notifications \subseteq notifications'
                  /\ UNCHANGED <<parts, sales, sale_details>>
            /\ (sess[p].pc = "except" /\ sess[p].committed)
               => UNCHANGED <<notifications, parts, sales, sale_details>>
       /\ \A n \in NewNotices :
            \E p \in Workers : /\ sess[p].pc \notin {"idle", "except"}
                               /\ n.sale = sess[p].new_sale.id]_vars

\* a committed sale whose invocation has returned a failure: the first
\* manager holds a notification of a fan-out, the second manager does not
C24_Witness ==
    \E p \in Workers :
        /\ ReturnedCommitted(sess[p]) /\ ~sess[p].response.success
        /\ \E t \in sales : t.id = sess[p].response.sale
        /\ \E n \in SaleNotices(sess[p].response.sale) :
              /\ n.user_id = RoleUsers("manager")[1]
              /\ n.title \in {"Critical Stock Alert", "High Value Sale"}
              /\ \A m \in SaleNotices(sess[p].response.sale) :
                    m.title = n.title => m.user_id # RoleUsers("manager")[2]

\* C25: an item is recorded as low-stock exactly when its stock after the
\* sale is at or below the threshold; an item that ends exactly at the
\* threshold is recorded.  Stated for a cart of distinct existing items in
\* positive quantities over stock that is not negative, once the loop over
\* the cart is through.
C25_LowStockAtOrBelowThreshold ==
    \A p \in Workers :
        LET s == sess[p]
        IN  ( /\ s.pc = "lines" /\ s.i > Len(s.data.items)
              /\ AllPositive(s.data.items) /\ AllDistinct(s.data.items)
              /\ AllExisting(s.data.items, s.pre.parts) /\ NoNegativeStock(s.pre.parts) )
            => \A id \in CartIds(s.data.items) :
                  (id \in SeqToSet(s.low_stock_items)) <=> (s.loaded[id] <= s.low_stock_threshold)

\* C26: the generation of the receipt number is not retried.  An invocation
\* whose generated number is carried by a stored sale does not get past the
\* INSERT of its Sale with it; it fails with a persistence error (status
\* 500), and after its failure handler the sales, the line items, the stock,
\* the notifications and the audit log are as before the request, the sale
\* that carries the number included.
ReceiptCollision(s) ==
    /\ s.pc = "except" /\ s.error = "IntegrityError" /\ s.new_sale = NoSale
    /\ (s.data.customer_id = 0 \/ s.data.customer_id \in Customers)

C26_CollisionFailsWithoutRetry ==
    [][\A p \in Workers :
          /\ ReceiptCollision(sess[p])
             => /\ Snapshot' = sess[p].pre
                /\ sess'[p].pc = "idle"
                /\ sess'[p].response.status = 500 /\ ~sess'[p].response.success
                /\ sess'[p].response.sale_id = 0
          /\ sess'[p].new_sale # NoSale
             => sess'[p].new_sale.receipt_number
                   \notin {t.receipt_number : t \in sess'[p].pre.sales}]_vars

\* the INSERT of an invocation has been refused for its receipt number,
\* with earlier sales stored and the tables as before the request
C26_Witness ==
    \E p \in Workers :
        /\ ReceiptCollision(sess[p])
        /\ sess[p].pre.sales # {}
        /\ Snapshot = sess[p].pre

\* C28: a cart that holds the same item id in two lines is never committed:
\* its invocation does not pass the commit, while it runs and after it has
\* failed the sales, the line items and the stock are as before the request,
\* and so no sale decrements or alerts an item twice: a persisted sale has at
\* most one line item per item.
C28_DuplicateItemNeverCommitted ==
    /\ \A p \in Workers :
          LET s == sess[p]
          IN  (s.pc # "idle" /\ ~AllDistinct(s.data.items))
                 => /\ ~s.committed
                    /\ parts = s.pre.parts
                    /\ sales = s.pre.sales
                    /\ sale_details = s.pre.sale_details
                    /\ notifications = s.pre.notifications
    /\ \A d, e \in sale_details :
          (d.sale_id = e.sale_id /\ d.part_id = e.part_id) => d = e

\* the invocation of a cart with the item in two lines has decremented the
\* stock twice in its session and failed
C28_Witness ==
    \E p \in Workers :
        LET s == sess[p]
        IN  /\ s.pc = "except" /\ ~AllDistinct(s.data.items)
            /\ s.new_sale # NoSale
            /\ \E id \in DOMAIN s.loaded : s.loaded[id] = s.pre.parts[id] - 2

\* C29: a stored threshold that is not a number never blocks a sale: the
\* threshold falls back to its default and the sale is committed and
\* reported successful.  No invocation fails on the conversion of a stored
\* threshold, and an invocation that reads a non-numeric low-stock threshold
\* goes on with the default of 5.
C29_BadThresholdFallsBack ==
    \A p \in Workers :
        LET s == sess[p]
        IN  /\ (s.pc = "except" => s.error # "ValueError")
            /\ (ReturnedFailure(s) => s.response.message # "ValueError")
            /\ ( /\ s.pc = "lines"
                  /\ LowKey \in DOMAIN settings /\ ~IsNumeral(settings[LowKey]) )
                => s.low_stock_threshold = DefaultLowStockThreshold

====
